---- MODULE Spec2Model ----
(***************************************************************************)
(* A model of expenses.py, the GnuCash expense report script.              *)
(*                                                                         *)
(* The script is one straight-line run: open the session, walk the         *)
(* requested accounts, end the session, print the transaction transcript   *)
(* and the expense summary and, when --output is given, build the same     *)
(* report as a document.  Each loop iteration of the script is one action. *)
(*                                                                         *)
(* Units.  A GncNumeric is a record [num, denom].  A Decimal is modelled   *)
(* as an integer number of thousandths (every Decimal the script builds    *)
(* comes from a GncNumeric whose denominator divides 1000).  Dates are     *)
(* day numbers, transaction timestamps are counted in half days.           *)
(*                                                                         *)
(* The gnucash binding is not part of the script.  Where the script's      *)
(* outcome depends on binding behaviour that the script does not fix, the  *)
(* record lib chooses it in the initial state:                             *)
(*   lib.cache      GetSplitList hands out one wrapper object per split    *)
(*                  (TRUE) or a new wrapper object on every call (FALSE);  *)
(*   lib.divRaises  GncNumeric.div by a zero numeric raises (TRUE) or      *)
(*                  returns the error numeric with denominator 0 (FALSE);  *)
(*   lib.how        the rounding used for the rounding flag 0 passed at    *)
(*                  lines 93, 112, 193 and 198.                            *)
(***************************************************************************)
EXTENDS Integers, Sequences, FiniteSets, TLC

VARIABLES
    parent,          \* ledger: account -> parent account
    splits,          \* ledger: split id -> split record
    accounts,        \* args.accounts, each name as its list of segments
    output,          \* whether --output was given
    lib,             \* behaviour of the gnucash binding (see above)
    pc,              \* position of the script
    status,          \* "running", "ok" (normal exit) or "error" (traceback)
    sess,            \* "none", "open" or "ended"
    endCalls,        \* number of calls of sess.end()
    readState,       \* state of the session at the latest ledger read
    i,               \* index of the for loop at line 63
    data,            \* the list data
    k,               \* index of the loops at lines 79, 174
    expenses,        \* defaultdict(list): category -> list of entries
    todo,            \* categories the loops at lines 119, 233 have left
    out,             \* lines printed on stdout
    expense_local,
    expense_foreign,
    foreign_sum,     \* module-level name, survives the loop at line 119
    balance,
    rows,            \* the rows of the Transactions table
    elements         \* category tables appended to the document

vars == <<parent, splits, accounts, output, lib, pc, status, sess, endCalls,
          readState, i, data, k, expenses, todo, out, expense_local,
          expense_foreign, foreign_sum, balance, rows, elements>>

ledgerVars == <<parent, splits, accounts, output, lib>>

(***************************************************************************)
(* Bounds of the model.                                                    *)
(***************************************************************************)
MaxAccounts == 2     \* longest --accounts list
NSplits == 2         \* splits in the ledger

(***************************************************************************)
(* Arithmetic helpers.                                                     *)
(***************************************************************************)
Abs(x) == IF x < 0 THEN -x ELSE x

\* n / d rounded to an integer, d > 0.
RoundTrunc(n, d) == IF n >= 0 THEN n \div d ELSE -((-n) \div d)

RoundFloor(n, d) == n \div d

RoundHalfEven(n, d) ==
    LET q == n \div d
        r == n % d
    IN  IF 2 * r < d THEN q
        ELSE IF 2 * r > d THEN q + 1
        ELSE IF q % 2 = 0 THEN q ELSE q + 1

RECURSIVE SumSeq(_)
SumSeq(s) == IF s = <<>> THEN 0 ELSE Head(s) + SumSeq(Tail(s))

RECURSIVE SumSet(_, _)
SumSet(f, S) ==
    IF S = {} THEN 0
    ELSE LET x == CHOOSE y \in S : TRUE IN f[x] + SumSet(f, S \ {x})

Range(s) == {s[j] : j \in DOMAIN s}

(***************************************************************************)
(* GncNumeric.                                                             *)
(***************************************************************************)
Gnc(n, d) == [num |-> n, denom |-> d]

\* gnc_numeric_error: the error numeric has denominator 0.
GncError == Gnc(-1, 0)

IsError(g) == g.denom = 0

\* The rounding the binding applies for the rounding flag 0.
HowZero(n, d) ==
    CASE lib.how = "trunc" -> RoundTrunc(n, d)
      [] lib.how = "floor" -> RoundFloor(n, d)
      [] OTHER             -> RoundHalfEven(n, d)

\* a.div(b, 1000, 0) for a non-zero b: the quotient at denominator 1000.
DivExact(a, b) ==
    LET n == a.num * b.denom * 1000
        d == a.denom * b.num
    IN  IF d > 0 THEN Gnc(HowZero(n, d), 1000)
                 ELSE Gnc(HowZero(-n, -d), 1000)

\* a.div(b, 1000, 0); the caller handles the raising binding.
div(a, b) == IF IsError(a) \/ IsError(b) \/ b.num = 0 THEN GncError ELSE DivExact(a, b)

neg(a) == IF IsError(a) THEN GncError ELSE Gnc(-a.num, a.denom)

\* val.div(price, 1000, 0) without the negation.
LocalAmountNotNegated(val, price) == div(val, price)

\* val.div(price, 1000, 0).neg()  (lines 93, 112, 193, 198)
LocalAmount(val, price) == neg(div(val, price))

\* Whether val.div(price, 1000, 0) raises instead of returning.
DivRaises(val, price) == lib.divRaises /\ price.num = 0

(***************************************************************************)
(* Decimal, in thousandths.                                                *)
(***************************************************************************)
\* Decimal(g.num()) / Decimal(g.denom()), for a denominator that divides 1000
ToDecimal(g) == (g.num * 1000) \div g.denom

\* Decimal.quantize(TWOPLACES) under the default context (ROUND_HALF_EVEN)
quantize(m) == 10 * RoundHalfEven(m, 10)

\* (Decimal(price.denom()) / Decimal(price.num())).quantize(SIXPLACES),
\* in millionths  (line 180)
Rate(price) ==
    IF price.num > 0 THEN RoundHalfEven(price.denom * 1000000, price.num)
    ELSE RoundHalfEven(-price.denom * 1000000, -price.num)

(***************************************************************************)
(* The ledger: accounts, splits and what the binding returns for them.     *)
(***************************************************************************)
Root == "Root"

None == "None"

\* The accounts that hold the walked splits, in the order get_children()
\* enumerates siblings.
AccountOrder == <<"Assets", "Bank", "Checking">>

Accts == Range(AccountOrder)

\* String order of the category and leaf names sorted() compares.
NameOrder == <<"Auto", "Dining", "Expenses", "Food", "Gas", "Groceries">>

Rank(name) == CHOOSE r \in DOMAIN NameOrder : NameOrder[r] = name

SplitIds == 1 .. NSplits

IdSeq == [s \in SplitIds |-> s]

\* datetime.date.fromtimestamp(ts): the day a timestamp falls on.
fromtimestamp(ts) == ts \div 2

\* The Python object GetSplitList returns for split s in call number call.
Wrapper(s, call) == [id |-> s, obj |-> IF lib.cache THEN 0 ELSE call]

\* One element of the list comprehension at lines 33-35.
Triple(s, call) ==
    [date  |-> fromtimestamp(splits[s].stamp),
     num   |-> splits[s].num,
     split |-> Wrapper(s, call)]

\* account.get_children()
get_children(account) == SelectSeq(AccountOrder, LAMBDA c : parent[c] = account)

\* account.GetSplitList(), as split ids
GetSplitList(account) == SelectSeq(IdSeq, LAMBDA s : splits[s].account = account)

RECURSIVE read_account_transactions(_, _)
RECURSIVE read_children(_, _)
read_children(children, call) ==
    IF children = <<>> THEN <<>>
    ELSE read_account_transactions(Head(children), call)
         \o read_children(Tail(children), call)

read_account_transactions(account, call) ==
    LET own == GetSplitList(account)
        acc_data == [j \in DOMAIN own |-> Triple(own[j], call)]
    IN  acc_data \o read_children(get_children(account), call)

\* acc.lookup_by_name(sub): the child of that name, or None.
lookup_by_name(acc, sub) ==
    IF acc # None /\ sub \in Accts /\ parent[sub] = acc THEN sub ELSE None

\* The loop at lines 64-66; None stands for the AttributeError the next
\* use of a failed lookup raises.
RECURSIVE Resolve(_, _)
Resolve(acc, name) ==
    IF name = <<>> THEN acc
    ELSE Resolve(lookup_by_name(acc, Head(name)), Tail(name))

(***************************************************************************)
(* sorted(set(data))  (lines 78, 173)                                      *)
(***************************************************************************)
\* Tuple comparison: date, then number, then the split objects.
TripleLessDescending(a, b) ==
    \/ a.date > b.date
    \/ a.date = b.date /\ a.num < b.num
    \/ a.date = b.date /\ a.num = b.num /\ a.split.id < b.split.id
    \/ a.date = b.date /\ a.num = b.num /\ a.split.id = b.split.id
       /\ a.split.obj < b.split.obj

TripleLess(a, b) ==
    \/ a.date < b.date
    \/ a.date = b.date /\ a.num < b.num
    \/ a.date = b.date /\ a.num = b.num /\ a.split.id < b.split.id
    \/ a.date = b.date /\ a.num = b.num /\ a.split.id = b.split.id
       /\ a.split.obj < b.split.obj

\* set(data): tuples that compare equal collapse.
set(list) == Range(list)

RECURSIVE sorted(_)
sorted(S) ==
    IF S = {} THEN <<>>
    ELSE LET m == CHOOSE x \in S : \A y \in S : x = y \/ TripleLess(x, y)
         IN  <<m>> \o sorted(S \ {m})

(***************************************************************************)
(* Session, lookup and traversal  (lines 56-72)                            *)
(***************************************************************************)
runVars == <<data, k, expenses, todo, out, expense_local, expense_foreign,
             foreign_sum, balance, rows, elements>>

\* An exception that leaves the script: the interpreter prints the traceback
\* and exits.
Abort == pc' = "exit" /\ status' = "error"

\* gnucash.Session(args.input, is_new=False)  (line 59)
OpenSession ==
    /\ pc = "open"
    /\ \/ /\ sess' = "open"
          /\ pc' = "walk"
          /\ UNCHANGED status
       \/ \* the ledger cannot be opened: the constructor raises
          /\ Abort
          /\ UNCHANGED sess
    /\ UNCHANGED <<ledgerVars, endCalls, readState, i, runVars>>

\* An exception inside the try block without the finally clause.
RaiseInTryNoFinally ==
    /\ Abort
    /\ UNCHANGED <<sess, endCalls>>

\* An exception inside the try block: the finally clause runs sess.end()
\* and the exception leaves the script  (lines 71-72).
RaiseInTry ==
    /\ Abort
    /\ sess' = "ended"
    /\ endCalls' = endCalls + 1

\* One iteration of the loop at lines 63-69.
WalkAccount ==
    /\ pc = "walk"
    /\ i <= Len(accounts)
    /\ LET acc == Resolve(Root, accounts[i]) IN
       \/ /\ acc # None
          /\ data' = data \o read_account_transactions(acc, i)
          /\ i' = i + 1
          /\ readState' = sess
          /\ UNCHANGED <<pc, status, sess, endCalls>>
       \/ \* the name does not resolve, or the backend fails while walking
          /\ RaiseInTry
          /\ readState' = sess
          /\ UNCHANGED <<i, data>>
    /\ UNCHANGED <<ledgerVars, k, expenses, todo, out, expense_local,
                   expense_foreign, foreign_sum, balance, rows, elements>>

\* The loop at line 63 is done: the finally clause  (lines 71-72).
EndSession ==
    /\ pc = "walk"
    /\ i > Len(accounts)
    /\ sess' = "ended"
    /\ endCalls' = endCalls + 1
    /\ pc' = "sort"
    /\ UNCHANGED <<ledgerVars, status, readState, i, runVars>>

(***************************************************************************)
(* The text report  (lines 74-152)                                         *)
(***************************************************************************)
\* expenses[cat] = [entry]: the entry replaces the list.
AppendEntryOverwrites(exp, cat, entry) ==
    [c \in DOMAIN exp \cup {cat} |-> IF c = cat THEN <<entry>> ELSE exp[c]]

\* expenses[cat].append(entry) on a defaultdict(list)
AppendEntry(exp, cat, entry) ==
    [c \in DOMAIN exp \cup {cat} |->
        IF c = cat
        THEN Append(IF cat \in DOMAIN exp THEN exp[cat] ELSE <<>>, entry)
        ELSE exp[c]]

\* The first name of a set in string order.
First(S) == CHOOSE x \in S : \A y \in S : Rank(x) <= Rank(y)

\* sorted() of a set of names
RECURSIVE sortedNames(_)
sortedNames(S) ==
    IF S = {} THEN <<>> ELSE <<First(S)>> \o sortedNames(S \ {First(S)})

\* The entries of a list that belong to leaf account name.
Of(v, name) == SelectSeq(v, LAMBDA e : e.acc = name)

\* Lines 74-78: the headings and data = sorted(set(data)).
SortData ==
    /\ pc = "sort"
    /\ data' = sorted(set(data))
    /\ k' = 1
    /\ pc' = "transcript"
    /\ UNCHANGED <<ledgerVars, status, sess, endCalls, readState, i, expenses,
                   todo, out, expense_local, expense_foreign, foreign_sum,
                   balance, rows, elements>>

\* One iteration of the loop at lines 79-112.
TranscriptSplit ==
    /\ pc = "transcript"
    /\ k <= Len(data)
    /\ LET split == data[k].split
           s     == splits[split.id]
           val   == s.value
           price == s.price
           head  == [kind |-> "head", split |-> split]
           local == LocalAmount(val, price)
       IN  IF s.other # <<>>
           THEN LET other_name == s.other[1].account
                    foreign    == s.other[1].value
                    lines == <<[kind |-> "other", split |-> split, amount |-> foreign],
                               [kind |-> "local", split |-> split, amount |-> local]>>
                IN  IF DivRaises(val, price)
                    THEN /\ out' = Append(out, head)
                         /\ Abort
                         /\ UNCHANGED <<k, expenses>>
                    ELSE IF Len(other_name) < 2
                    THEN \* other_name[1] raises IndexError  (line 104)
                         /\ out' = Append(out, head) \o lines
                         /\ Abort
                         /\ UNCHANGED <<k, expenses>>
                    ELSE /\ out' = Append(out, head) \o lines
                         /\ expenses' = AppendEntry(expenses, other_name[2],
                                [acc     |-> other_name[Len(other_name)],
                                 local   |-> local,
                                 foreign |-> foreign])
                         /\ k' = k + 1
                         /\ UNCHANGED <<pc, status>>
           ELSE LET dash == [kind |-> "placeholder", split |-> split]
                IN  IF DivRaises(val, price)
                    THEN /\ out' = out \o <<head, dash>>
                         /\ Abort
                         /\ UNCHANGED <<k, expenses>>
                    ELSE /\ out' = out \o <<head, dash,
                                [kind |-> "local", split |-> split, amount |-> local]>>
                         /\ k' = k + 1
                         /\ UNCHANGED <<pc, status, expenses>>
    /\ readState' = sess
    /\ UNCHANGED <<ledgerVars, sess, endCalls, i, data, todo, expense_local,
                   expense_foreign, foreign_sum, balance, rows, elements>>

\* Lines 113-118: the loop at line 79 is done.
ExpensesHeading ==
    /\ pc = "transcript"
    /\ k > Len(data)
    /\ expense_local' = 0
    /\ expense_foreign' = 0
    /\ todo' = DOMAIN expenses
    /\ pc' = "expenses"
    /\ UNCHANGED <<ledgerVars, status, sess, endCalls, readState, i, data, k,
                   expenses, out, foreign_sum, balance, rows, elements>>

\* The groups of the text report summed from amounts rounded per entry.
TextGroupRounded(v, field) ==
    [name \in {e.acc : e \in Range(v)} |->
        SumSeq([j \in DOMAIN Of(v, name) |->
                    quantize(ToDecimal(Of(v, name)[j][field]))])]

\* local_group / foreign_group of the text report  (lines 122-126)
TextGroup(v, field) ==
    [name \in {e.acc : e \in Range(v)} |->
        SumSeq([j \in DOMAIN Of(v, name) |-> ToDecimal(Of(v, name)[j][field])])]

\* expense_local += local_sum on a sum that was rounded for display first.
AccumulateRounded(total, sum) == total + quantize(sum)

\* expense_local += local_sum, expense_foreign += foreign_sum
\* (lines 141-142)
Accumulate(total, sum) == total + sum

\* One iteration of the loop at lines 119-142.
ExpenseCategory ==
    /\ pc = "expenses"
    /\ todo # {}
    /\ LET cat == First(todo)
           v   == expenses[cat]
           heading == [kind |-> "category", cat |-> cat]
       IN  IF \E e \in Range(v) : IsError(e.local) \/ IsError(e.foreign)
           THEN \* Decimal(x) / Decimal(0) raises  (lines 125-126)
                /\ out' = Append(out, heading)
                /\ Abort
                /\ UNCHANGED <<todo, expense_local, expense_foreign, foreign_sum>>
           ELSE LET local_group   == TextGroup(v, "local")
                    foreign_group == TextGroup(v, "foreign")
                    names         == sortedNames(DOMAIN local_group)
                    local_sum     == SumSet(local_group, DOMAIN local_group)
                    fsum          == SumSet(foreign_group, DOMAIN local_group)
                    leaves == [j \in DOMAIN names |->
                                 [kind    |-> "leaf", cat |-> cat, name |-> names[j],
                                  foreign |-> quantize(foreign_group[names[j]]),
                                  local   |-> quantize(local_group[names[j]])]]
                    total  == [kind    |-> "total", cat |-> cat,
                               foreign |-> quantize(fsum),
                               local   |-> quantize(local_sum)]
                IN  /\ out' = Append(Append(out, heading) \o leaves, total)
                    /\ expense_local' = Accumulate(expense_local, local_sum)
                    /\ expense_foreign' = Accumulate(expense_foreign, fsum)
                    /\ foreign_sum' = fsum
                    /\ todo' = todo \ {cat}
                    /\ UNCHANGED <<pc, status>>
    /\ UNCHANGED <<ledgerVars, sess, endCalls, readState, i, data, k, expenses,
                   balance, rows, elements>>

\* Lines 144-152: the grand total, and exit() without --output.
GrandTotal ==
    /\ pc = "expenses"
    /\ todo = {}
    /\ out' = Append(out, [kind    |-> "grand",
                           foreign |-> quantize(expense_foreign),
                           local   |-> quantize(expense_local)])
    /\ IF output
       THEN pc' = "document" /\ UNCHANGED status
       ELSE pc' = "exit" /\ status' = "ok"
    /\ UNCHANGED <<ledgerVars, sess, endCalls, readState, i, data, k, expenses,
                   todo, expense_local, expense_foreign, foreign_sum, balance,
                   rows, elements>>

(***************************************************************************)
(* The document  (lines 154-277)                                           *)
(***************************************************************************)
\* Lines 154-173: the imports, the Transactions heading and the second
\* data = sorted(set(data)).
DocumentStart ==
    /\ pc = "document"
    /\ data' = sorted(set(data))
    /\ balance' = 0
    /\ rows' = <<[kind |-> "header"]>>
    /\ elements' = <<>>
    /\ k' = 1
    /\ pc' = "rows"
    /\ UNCHANGED <<ledgerVars, status, sess, endCalls, readState, i, expenses,
                   todo, out, expense_local, expense_foreign, foreign_sum>>

\* (Decimal(local.num()) / Decimal(local.denom())).quantize(TWOPLACES)
\* (line 202)
BalanceStep(local) == quantize(ToDecimal(local))

\* One iteration of the loop at lines 174-213; the four rows it appends are
\* kept as one record.
DocumentSplit ==
    /\ pc = "rows"
    /\ k <= Len(data)
    /\ LET split == data[k].split
           s     == splits[split.id]
           val   == s.value
           price == s.price
           local == LocalAmount(val, price)
       IN  IF price.num = 0 \/ IsError(local)
           THEN \* Decimal(x) / Decimal(0) raises  (lines 180, 202)
                /\ Abort
                /\ UNCHANGED <<k, balance, rows>>
           ELSE /\ balance' = balance + BalanceStep(local)
                /\ rows' = Append(rows,
                        [kind    |-> "split",
                         split   |-> split,
                         credit  |-> IF s.other # <<>> THEN <<s.other[1].value>>
                                                       ELSE <<>>,
                         debit   |-> local,
                         rate    |-> IF s.other # <<>> THEN Rate(price)
                                                       ELSE 1000000,
                         balance |-> balance + BalanceStep(local)])
                /\ k' = k + 1
                /\ UNCHANGED <<pc, status>>
    /\ readState' = sess
    /\ UNCHANGED <<ledgerVars, sess, endCalls, i, data, expenses, todo, out,
                   expense_local, expense_foreign, foreign_sum, elements>>

\* Lines 215-232: the Grand Total row, the table and the Expenses heading.
DocumentTotal ==
    /\ pc = "rows"
    /\ k > Len(data)
    /\ rows' = Append(rows, [kind |-> "grand", balance |-> balance])
    /\ expense_local' = 0
    /\ expense_foreign' = 0
    /\ todo' = DOMAIN expenses
    /\ pc' = "tables"
    /\ UNCHANGED <<ledgerVars, status, sess, endCalls, readState, i, data, k,
                   expenses, out, foreign_sum, balance, elements>>

\* local_group / foreign_group of the document  (lines 237-243)
DocGroup(v, field) ==
    [name \in {e.acc : e \in Range(v)} |->
        SumSeq([j \in DOMAIN Of(v, name) |->
                    quantize(ToDecimal(Of(v, name)[j][field]))])]

\* One iteration of the loop at lines 233-270.
DocumentCategory ==
    /\ pc = "tables"
    /\ todo # {}
    /\ LET cat == First(todo)
           v   == expenses[cat]
           local_group   == DocGroup(v, "local")
           foreign_group == DocGroup(v, "foreign")
           names         == sortedNames(DOMAIN local_group)
           local_sum     == SumSet(local_group, DOMAIN local_group)
           leaves == [j \in DOMAIN names |->
                        [name    |-> names[j],
                         foreign |-> IF foreign_group[names[j]] # local_group[names[j]]
                                     THEN <<foreign_group[names[j]]>>
                                     ELSE <<>>,
                         local   |-> local_group[names[j]]]]
       IN  /\ elements' = Append(elements,
                  [cat |-> cat, rows |-> leaves, total |-> local_sum])
           /\ expense_local' = expense_local + local_sum
           /\ expense_foreign' = expense_foreign + foreign_sum
           /\ todo' = todo \ {cat}
    /\ UNCHANGED <<ledgerVars, pc, status, sess, endCalls, readState, i, data,
                   k, expenses, out, foreign_sum, balance, rows>>

\* doc.build(elements)  (line 277)
DocumentBuild ==
    /\ pc = "tables"
    /\ todo = {}
    /\ pc' = "exit"
    /\ \/ status' = "ok"
       \/ status' = "error"     \* the document cannot be written
    /\ UNCHANGED <<ledgerVars, sess, endCalls, readState, i, data, k, expenses,
                   todo, out, expense_local, expense_foreign, foreign_sum,
                   balance, rows, elements>>

(***************************************************************************)
(* Specifications                                                          *)
(***************************************************************************)
Next ==
    \/ OpenSession
    \/ WalkAccount
    \/ EndSession
    \/ SortData
    \/ TranscriptSplit
    \/ ExpensesHeading
    \/ ExpenseCategory
    \/ GrandTotal
    \/ DocumentStart
    \/ DocumentSplit
    \/ DocumentTotal
    \/ DocumentCategory
    \/ DocumentBuild

\* The account trees: Checking is a child of Assets, or of Bank.
Trees ==
    {[a \in Accts |-> IF a = "Checking" THEN p ELSE Root] : p \in {"Assets", "Bank"}}

\* args.accounts after lines 54 and 65: lists of 1 .. MaxAccounts names, each
\* name as its segments.
Lists(names) ==
    UNION {[1 .. n -> names] : n \in 1 .. MaxAccounts}

\* The transactions of the ledger: timestamp (GetDate) and number (GetNum).
\* The first two fall on the same day.
Transactions ==
    {[stamp |-> 0, num |-> 2], [stamp |-> 1, num |-> 1], [stamp |-> 2, num |-> 1]}

Cents(n) == Gnc(n, 100)

Groceries == <<"Expenses", "Food", "Groceries">>

Dining == <<"Expenses", "Food", "Dining">>

Gas == <<"Expenses", "Auto", "Gas">>

\* GetOtherSplit(): the other split's account name and value, or nothing.
Other(name, value) == <<[account |-> name, value |-> value]>>

SplitRecords(accts, txs, values, prices, others) ==
    {[account |-> a, stamp |-> t.stamp, num |-> t.num, value |-> v,
      price |-> p, other |-> o] :
        a \in accts, t \in txs, v \in values, p \in prices, o \in others}

\* The state before line 59.
Start ==
    /\ pc = "open"
    /\ status = "running"
    /\ sess = "none"
    /\ endCalls = 0
    /\ readState = "none"
    /\ i = 1
    /\ data = <<>>
    /\ k = 1
    /\ expenses = <<>>
    /\ todo = {}
    /\ out = <<>>
    /\ expense_local = 0
    /\ expense_foreign = 0
    /\ foreign_sum = 0
    /\ balance = 0
    /\ rows = <<>>
    /\ elements = <<>>

\* Runs that differ in the session's fate: names that do not resolve, zero
\* prices, splits without an other split, an other account without a
\* category, with and without --output.
Init ==
    /\ parent \in {[a \in Accts |-> IF a = "Checking" THEN "Assets" ELSE Root]}
    /\ accounts \in Lists({<<"Assets">>, <<"Cash">>})
    /\ splits \in [SplitIds -> SplitRecords({"Checking"}, {[stamp |-> 0, num |-> 1]},
                        {Cents(-2000)}, {Gnc(0, 1), Gnc(1, 1), Gnc(3, 1)},
                        {<<>>, Other(Groceries, Cents(2000)),
                         Other(<<"Expenses">>, Cents(2000))})]
    /\ output \in BOOLEAN
    /\ lib \in [cache : {FALSE}, divRaises : BOOLEAN, how : {"trunc"}]
    /\ Start

Spec == Init /\ [][Next]_vars

\* Runs over overlapping account lists, trees, dates and numbers.
InitWalk ==
    /\ parent \in Trees
    /\ accounts \in Lists({<<"Assets">>, <<"Assets", "Checking">>, <<"Bank">>})
    /\ splits \in [SplitIds -> SplitRecords({"Checking", "Bank"}, Transactions,
                        {Cents(-2000)}, {Gnc(1, 1)},
                        {Other(Groceries, Cents(2000))})]
    /\ output = TRUE
    /\ lib \in [cache : BOOLEAN, divRaises : {FALSE}, how : {"trunc"}]
    /\ Start

SpecWalk == InitWalk /\ [][Next]_vars

\* Runs over amounts, prices, categories and leaf accounts.
InitAmounts ==
    /\ parent \in {[a \in Accts |-> Root]}
    /\ accounts = <<<<"Bank">>>>
    /\ splits \in [SplitIds -> SplitRecords({"Bank"}, {[stamp |-> 0, num |-> 1]},
                        {Cents(-1), Cents(1)}, {Gnc(2, 1), Gnc(3, 1)},
                        {<<>>, Other(Groceries, Cents(1)), Other(Dining, Cents(1)),
                         Other(Gas, Cents(1))})]
    /\ output = TRUE
    /\ lib \in [cache : {TRUE}, divRaises : {FALSE}, how : {"trunc", "floor", "even"}]
    /\ Start

SpecAmounts == InitAmounts /\ [][Next]_vars

(***************************************************************************)
(* Properties                                                              *)
(***************************************************************************)
\* data holds the result of sorted(set(data)).
Sorted == pc \in {"transcript", "expenses", "document", "rows", "tables"}

\* The entries of data for physical split s.
EntriesOf(s) == {j \in DOMAIN data : data[j].split.id = s}

\* The splits below the requested accounts.
RECURSIVE Below(_, _)
Below(a, r) == a = r \/ (a # Root /\ Below(parent[a], r))

Requested(s) ==
    \E n \in DOMAIN accounts :
        /\ Resolve(Root, accounts[n]) # None
        /\ Below(splits[s].account, Resolve(Root, accounts[n]))

\* C1: once data has been deduplicated and sorted, every physical split below
\* a requested account is in it exactly once, whatever the overlap of the
\* requested accounts.
C1_EachSplitOnce ==
    Sorted => \A s \in SplitIds :
                 Cardinality(EntriesOf(s)) = IF Requested(s) THEN 1 ELSE 0

\* C2: after sorted(set(data)), at line 78 and again at line 173, every
\* entry's date is at most the date of the entry after it.
C2_SortedByDate ==
    Sorted => \A j \in 1 .. Len(data) - 1 : data[j].date <= data[j + 1].date

\* C2's case: splits of one account that GetSplitList returns latest first
\* stand earliest first in the sorted data.
C2_Witness ==
    /\ pc = "rows"
    /\ Len(data) = 2
    /\ data[1].date < data[2].date
    /\ data[1].split.id > data[2].split.id
    /\ splits[1].account = splits[2].account

\* C3: a session that was opened is ended exactly once: by the time the
\* script has left the try statement, normally or by an exception, and so
\* before anything is printed and before the process exits, however the
\* later phases end.
C3_EndedExactlyOnce ==
    /\ endCalls <= 1
    /\ sess = "none" => endCalls = 0
    /\ (sess # "none" /\ pc \notin {"open", "walk"}) => (sess = "ended" /\ endCalls = 1)

\* C3's case: the run stopped inside the loop at line 63 on a name that does
\* not resolve, with the session ended.
C3_Witness ==
    /\ pc = "exit"
    /\ status = "error"
    /\ i = 2
    /\ Len(accounts) = 2
    /\ Resolve(Root, accounts[2]) = None
    /\ sess = "ended"

\* C9: once the session has been ended no step reads the ledger.
C9_NoReadAfterEnd == readState # "ended"

\* The printed lines that show an amount computed from split s.
LocalLines(id) == {j \in DOMAIN out : out[j].kind = "local" /\ out[j].split.id = id}

\* C10: no line with an amount computed from a split whose share price is
\* zero is printed, and no run that has read such a split ends normally.
C10_ZeroPriceHalts ==
    \A s \in SplitIds :
        splits[s].price.num = 0 =>
            /\ LocalLines(s) = {}
            /\ (status = "ok" => EntriesOf(s) = {})

(***************************************************************************)
(* The converter's result against the exact quotient.  For value V and     *)
(* price P, -V/P in thousandths is -Numer/Denom.                           *)
(***************************************************************************)
Numer(s) == splits[s].value.num * splits[s].price.denom * 1000

Denom(s) == splits[s].value.denom * splits[s].price.num

\* local is exactly -V/P.
Exact(local, s) ==
    /\ ~IsError(local)
    /\ local.num * Denom(s) * 1000 + Numer(s) * local.denom = 0

\* local is a number of thousandths less than one thousandth from -V/P.
Near(local, s) ==
    /\ local.denom = 1000
    /\ Abs(local.num * Denom(s) + Numer(s)) < Abs(Denom(s))

TwoLeg(s) == splits[s].other # <<>>

OtherLines(id) == {j \in DOMAIN out : out[j].kind = "other" /\ out[j].split.id = id}

SplitRows(id) == {j \in DOMAIN rows : rows[j].kind = "split" /\ rows[j].split.id = id}

\* C4 as stated: for a split with an other split the local amount is exactly
\* -V/P and the foreign amount is the other split's value.
C4_LocalIsExactQuotient ==
    \A s \in SplitIds : TwoLeg(s) =>
        /\ \A j \in LocalLines(s) : Exact(out[j].amount, s)
        /\ \A j \in OtherLines(s) : out[j].amount = splits[s].other[1].value

\* C4, amended: for a split with an other split and a non-zero price, the
\* local amount is -V/P as a number of thousandths, less than one thousandth
\* from the exact quotient (and equal to it when that is a whole number of
\* thousandths); the foreign amount is the other split's value, unchanged.
\* This holds of the transcript and of the document's rows.
C4_LocalIsQuotientInThousandths ==
    \A s \in SplitIds : (TwoLeg(s) /\ splits[s].price.num # 0) =>
        /\ \A j \in LocalLines(s) : Near(out[j].amount, s)
        /\ \A j \in OtherLines(s) : out[j].amount = splits[s].other[1].value
        /\ \A j \in SplitRows(s) :
              /\ Near(rows[j].debit, s)
              /\ rows[j].credit = <<splits[s].other[1].value>>

\* C4's case: the transcript and the document show a two-leg split whose
\* quotient is no whole number of thousandths.
C4_Witness ==
    \E s \in SplitIds :
        /\ TwoLeg(s)
        /\ splits[s].price = Gnc(3, 1)
        /\ Numer(s) % Denom(s) # 0
        /\ LocalLines(s) # {}
        /\ SplitRows(s) # {}

(***************************************************************************)
(* The transcript and the expense groups.                                  *)
(***************************************************************************)
\* The entries of data whose iteration of the loop at line 79 is complete:
\* all of them once the document has been started, and those before k until
\* then.
Transcribed == IF rows # <<>> THEN DOMAIN data ELSE 1 .. (k - 1)

LinesOf(w, kind) == {j \in DOMAIN out : out[j].kind = kind /\ out[j].split = w}

\* The number of entries in all expense groups.
EntryCount == SumSet([c \in DOMAIN expenses |-> Len(expenses[c])], DOMAIN expenses)

\* What C5 says of one transcribed entry, with the local amount compared to
\* -V/P by relation R where the price is not zero and -V/P exists.
TranscriptEntry(j, R(_, _)) ==
    LET w == data[j].split IN
    IF TwoLeg(w.id)
    THEN /\ Cardinality(LinesOf(w, "other")) = 1
         /\ Cardinality(LinesOf(w, "local")) = 1
         /\ LinesOf(w, "placeholder") = {}
    ELSE /\ Cardinality(LinesOf(w, "placeholder")) = 1
         /\ Cardinality(LinesOf(w, "local")) = 1
         /\ LinesOf(w, "other") = {}
         /\ \A n \in LinesOf(w, "local") :
               splits[w.id].price.num # 0 => R(out[n].amount, w.id)

\* Every entry with an other split has added one entry to the expense
\* groups, and no other entry has.
OneEntryPerTwoLeg ==
    EntryCount = Cardinality({j \in Transcribed : TwoLeg(data[j].split.id)})

Lines(kind, cat) == {j \in DOMAIN out : out[j].kind = kind /\ out[j].cat = cat}

AllLines(kind) == {j \in DOMAIN out : out[j].kind = kind}

Field(S, field) == SumSet([j \in S |-> out[j][field]], S)

\* The exact sum of one field over a list of expense entries.
ExactSum(v, field) == SumSeq([j \in DOMAIN v |-> ToDecimal(v[j][field])])

RECURSIVE Flatten(_, _)
Flatten(exp, cats) ==
    IF cats = {} THEN <<>>
    ELSE LET c == CHOOSE x \in cats : TRUE IN exp[c] \o Flatten(exp, cats \ {c})

TableRowSum(t) == SumSeq([j \in DOMAIN t.rows |-> t.rows[j].local])

\* C6 as stated: in the text report and in the document, the reported local
\* subtotals of a category's leaf accounts add up to the category's reported
\* local total.
C6_SubtotalsAddUp ==
    /\ \A t \in AllLines("total") :
          Field(Lines("leaf", out[t].cat), "local") = out[t].local
    /\ \A e \in DOMAIN elements : TableRowSum(elements[e]) = elements[e].total

\* C6, amended: in the document the leaf subtotals add up to the category
\* total exactly.  In the text report each leaf subtotal and the category
\* total is the exact sum of its amounts rounded once to 2 places, so the
\* reported subtotals add up to the reported total only to within half a
\* penny for each rounded figure.
C6_SubtotalsAddUpBeforeRounding ==
    /\ \A t \in AllLines("total") :
          LET v == expenses[out[t].cat]
              leaves == Lines("leaf", out[t].cat)
          IN  /\ out[t].local = quantize(ExactSum(v, "local"))
              /\ \A l \in leaves :
                    out[l].local = quantize(ExactSum(Of(v, out[l].name), "local"))
              /\ Cardinality(leaves) = Cardinality({e.acc : e \in Range(v)})
              /\ Abs(Field(leaves, "local") - out[t].local)
                    <= 5 * (Cardinality(leaves) + 1)
    /\ \A e \in DOMAIN elements : TableRowSum(elements[e]) = elements[e].total

\* C6's case: a category with two leaf accounts is reported in the text and
\* in the document, and the text's subtotals do not add up to its total.
C6_Witness ==
    /\ Len(elements) = 1
    /\ Len(elements[1].rows) = 2
    /\ \E t \in AllLines("total") :
          Field(Lines("leaf", out[t].cat), "local") # out[t].local

\* C7 as stated: the reported grand totals are the sums of the reported
\* category totals.
C7_GrandTotalIsSumOfReported ==
    \A g \in AllLines("grand") :
        /\ out[g].local = Field(AllLines("total"), "local")
        /\ out[g].foreign = Field(AllLines("total"), "foreign")

\* C7, amended: before rounding the grand total is exactly the sum of the
\* category totals; each reported figure is that exact sum rounded once to 2
\* places, so the reported grand total equals the sum of the reported
\* category totals only to within half a penny for each rounded figure.
C7_GrandTotalIsSumBeforeRounding ==
    \A g \in AllLines("grand") :
        LET all == Flatten(expenses, DOMAIN expenses)
            n   == Cardinality(AllLines("total"))
        IN  /\ n = Cardinality(DOMAIN expenses)
            /\ out[g].local = quantize(ExactSum(all, "local"))
            /\ out[g].foreign = quantize(ExactSum(all, "foreign"))
            /\ Abs(out[g].local - Field(AllLines("total"), "local")) <= 5 * (n + 1)
            /\ Abs(out[g].foreign - Field(AllLines("total"), "foreign")) <= 5 * (n + 1)

\* C7's case: the grand total of two categories is printed and is not the
\* sum of the two reported category totals.
C7_Witness ==
    \E g \in AllLines("grand") :
        /\ Cardinality(AllLines("total")) = 2
        /\ out[g].local # Field(AllLines("total"), "local")

\* C8: the document's per-leaf and per-category local totals are those of
\* the text report: both are the exact sums rounded once.
C8_DocumentTotalsAreTextTotals ==
    \A e \in DOMAIN elements :
        LET t == elements[e] IN
        /\ \A l \in Lines("total", t.cat) : out[l].local = t.total
        /\ \A r \in DOMAIN t.rows :
              \A l \in Lines("leaf", t.cat) :
                  out[l].name = t.rows[r].name => out[l].local = t.rows[r].local

====
